---- MODULE Spec2Model ----
(***************************************************************************)
(* Model of the JSON-RPC transport of src/src/extension.ts: the frame      *)
(* encoder (sendRequest / sendNotification / sendResponse), the frame      *)
(* decoder (onMessageReceived), the dispatcher (interpretMessage), the     *)
(* pending-call ledger (pendingRequests) and the handshake callbacks.      *)
(*                                                                         *)
(* Text is a sequence of one-character strings, one element per UTF-16     *)
(* code unit of the JavaScript string.  A JavaScript value is a tagged     *)
(* record: Str, Num, Null, Undefined, Arr, Fn (a function, by its name) or *)
(* Obj, an object being the sequence of its properties in insertion order. *)
(***************************************************************************)
EXTENDS Integers, Sequences, FiniteSets, TLC

----------------------------------------------------------------------------
(* Bounds of the model. *)

\* The server writes at most this many frames in one run.
MaxFrames == 2

\* onMessageReceived is called with the first 1..MaxChunk characters that
\* are available, or with everything that is available.
MaxChunk == 2

----------------------------------------------------------------------------
(* Literal texts of the source. *)

ContentLengthText == <<"C","o","n","t","e","n","t","-","L","e","n","g","t","h",":"," ">>
CRLF == <<"\r","\n">>
LF == <<"\n">>
K_id == <<"i","d">>
K_jsonrpc == <<"j","s","o","n","r","p","c">>
K_method == <<"m","e","t","h","o","d">>
K_params == <<"p","a","r","a","m","s">>
K_result == <<"r","e","s","u","l","t">>
K_error == <<"e","r","r","o","r">>
K_code == <<"c","o","d","e">>
K_message == <<"m","e","s","s","a","g","e">>
K_capabilities == <<"c","a","p","a","b","i","l","i","t","i","e","s">>
K_diagnostics == <<"d","i","a","g","n","o","s","t","i","c","s">>
K_processId == <<"p","r","o","c","e","s","s","I","d">>
K_rootUri == <<"r","o","o","t","U","r","i">>
K_workspaceFolders == <<"w","o","r","k","s","p","a","c","e","F","o","l","d","e","r","s">>
V_2_0 == <<"2",".","0">>
M_initialize == <<"i","n","i","t","i","a","l","i","z","e">>
M_shutdown == <<"s","h","u","t","d","o","w","n">>
M_initialized == <<"i","n","i","t","i","a","l","i","z","e","d">>
M_exit == <<"e","x","i","t">>
M_publishDiagnostics == <<"t","e","x","t","D","o","c","u","m","e","n","t","/","p","u","b","l","i","s","h","D","i","a","g","n","o","s","t","i","c","s">>
M_logTrace == <<"$","/","l","o","g","T","r","a","c","e">>
MethodText == <<"M","e","t","h","o","d"," ">>
NotFoundText == <<" ","n","o","t"," ","f","o","u","n","d",".">>
NullText == <<"n","u","l","l">>

\* lsp.ErrorCodes.METHOD_NOT_FOUND
METHOD_NOT_FOUND == -32601

\* lsp.ErrorCodes.INVALID_PARAMS
INVALID_PARAMS == -32602

\* lsp.ErrorCodes.INTERNAL_ERROR
INTERNAL_ERROR == -32603

\* const contentLength = "Content-Length: ".length
contentLength == Len(ContentLengthText)

----------------------------------------------------------------------------
(* JavaScript values. *)

Str(s) == [t |-> "str", s |-> s]
Num(n) == [t |-> "num", n |-> n]
Null == [t |-> "null"]
Undefined == [t |-> "undefined"]
Obj(o) == [t |-> "obj", o |-> o]
Arr(a) == [t |-> "arr", a |-> a]
Fn(name) == [t |-> "function", name |-> name]
Prop(k, v) == [k |-> k, v |-> v]
EmptyObj == Obj(<< >>)

IsObj(v) == v.t = "obj"

\* 'key' in obj, for an object obj.
HasKey(obj, key) == \E i \in 1..Len(obj.o) : obj.o[i].k = key

\* obj.key: the property's value, undefined when the object has none.
Get(obj, key) ==
    IF HasKey(obj, key)
    THEN obj.o[CHOOSE i \in 1..Len(obj.o) : obj.o[i].k = key].v
    ELSE Undefined

\* v.key where v is an object, an array or a primitive other than null and
\* undefined: only an object has the properties modelled here.
PropOf(v, key) == IF IsObj(v) THEN Get(v, key) ELSE Undefined

\* 'key' in v, where v is an object or an array.
In(key, v) == IsObj(v) /\ HasKey(v, key)

\* JavaScript truthiness of a value (if (result) ...).
Truthy(v) ==
    CASE v.t = "obj" -> TRUE
      [] v.t = "arr" -> TRUE
      [] v.t = "str" -> Len(v.s) > 0
      [] v.t = "num" -> v.n # 0
      [] OTHER -> FALSE

----------------------------------------------------------------------------
(* JSON.stringify and JSON.parse, on the values above.  Strings hold no    *)
(* character that JSON escapes, numbers are integers, the literals true    *)
(* and false do not occur, and the texts parsed hold no insignificant      *)
(* white space.                                                            *)

DigitChars == <<"0","1","2","3","4","5","6","7","8","9">>

IsDigit(c) == \E d \in 1..10 : DigitChars[d] = c

DigitVal(c) == (CHOOSE d \in 1..10 : DigitChars[d] = c) - 1

RECURSIVE NatToText(_)
NatToText(n) ==
    IF n < 10 THEN <<DigitChars[n + 1]>>
    ELSE NatToText(n \div 10) \o <<DigitChars[(n % 10) + 1]>>

\* String(n) for an integer n.
NumToText(n) == IF n < 0 THEN <<"-">> \o NatToText(0 - n) ELSE NatToText(n)

RECURSIVE JSONstringify(_)
RECURSIVE StringifyProps(_, _, _)
RECURSIVE StringifyElems(_, _)

\* The elements of an array from index i on; undefined is written as null.
StringifyElems(a, i) ==
    IF i > Len(a) THEN << >>
    ELSE (IF i > 1 THEN <<",">> ELSE << >>)
         \o (IF a[i].t = "undefined" THEN NullText ELSE JSONstringify(a[i]))
         \o StringifyElems(a, i + 1)

\* The properties of an object from index i on; a property whose value is
\* undefined is left out, and sep tells whether a property was written before.
StringifyProps(o, i, sep) ==
    IF i > Len(o) THEN << >>
    ELSE IF o[i].v.t = "undefined" THEN StringifyProps(o, i + 1, sep)
    ELSE (IF sep THEN <<",">> ELSE << >>)
         \o <<"\"">> \o o[i].k \o <<"\"", ":">>
         \o JSONstringify(o[i].v)
         \o StringifyProps(o, i + 1, TRUE)

JSONstringify(v) ==
    CASE v.t = "str" -> <<"\"">> \o v.s \o <<"\"">>
      [] v.t = "num" -> NumToText(v.n)
      [] v.t = "null" -> NullText
      [] v.t = "arr" -> <<"[">> \o StringifyElems(v.a, 1) \o <<"]">>
      [] v.t = "obj" -> <<"{">> \o StringifyProps(v.o, 1, FALSE) \o <<"}">>

ParseFail == [ok |-> FALSE, v |-> Null, next |-> 0]

ParseOk(v, next) == [ok |-> TRUE, v |-> v, next |-> next]

RECURSIVE ParseDigits(_, _, _)
\* The digits of t from index i on, acc being the value read so far.
ParseDigits(t, i, acc) ==
    IF i <= Len(t) /\ IsDigit(t[i])
    THEN ParseDigits(t, i + 1, acc * 10 + DigitVal(t[i]))
    ELSE [n |-> acc, next |-> i]

\* A JSON number at index i: an optional minus sign, then 0 or a digit
\* sequence that does not start with 0.
ParseNumber(t, i) ==
    LET neg == t[i] = "-"
        s == IF neg THEN i + 1 ELSE i
        d == ParseDigits(t, s, 0)
    IN  IF s > Len(t) \/ ~IsDigit(t[s]) THEN ParseFail
        ELSE IF t[s] = "0" /\ d.next > s + 1 THEN ParseFail
        ELSE ParseOk(Num(IF neg THEN 0 - d.n ELSE d.n), d.next)

\* A JSON string at index i (t[i] is the opening quote).
ParseString(t, i) ==
    LET closing == {j \in (i + 1)..Len(t) : t[j] = "\""} IN
    IF closing = {} THEN ParseFail
    ELSE LET j == CHOOSE x \in closing : \A y \in closing : x <= y
             s == SubSeq(t, i + 1, j - 1)
         IN  IF \E x \in 1..Len(s) : s[x] \in {"\n", "\r", "\\"}
             THEN ParseFail
             ELSE ParseOk(Str(s), j + 1)

\* Whether text w stands in t at index i.
TextAt(t, i, w) == i + Len(w) - 1 <= Len(t) /\ SubSeq(t, i, i + Len(w) - 1) = w

RECURSIVE ParseValue(_, _)
RECURSIVE ParseMembers(_, _, _)
RECURSIVE ParseElements(_, _, _)

\* The elements of an array from index i on (t[i] starts a value), acc being
\* the elements read so far.
ParseElements(t, i, acc) ==
    LET val == ParseValue(t, i) IN
    IF ~val.ok \/ val.next > Len(t) THEN ParseFail
    ELSE LET elems == Append(acc, val.v) IN
         IF t[val.next] = "]" THEN ParseOk(Arr(elems), val.next + 1)
         ELSE IF t[val.next] = "," THEN ParseElements(t, val.next + 1, elems)
         ELSE ParseFail

\* The members of an object from index i on (t[i] starts a key), acc being
\* the properties read so far.
ParseMembers(t, i, acc) ==
    IF i > Len(t) \/ t[i] # "\"" THEN ParseFail
    ELSE LET key == ParseString(t, i) IN
         IF ~key.ok \/ key.next > Len(t) \/ t[key.next] # ":" THEN ParseFail
         ELSE LET val == ParseValue(t, key.next + 1) IN
              IF ~val.ok \/ val.next > Len(t) THEN ParseFail
              ELSE LET props == Append(acc, Prop(key.v.s, val.v)) IN
                   IF t[val.next] = "}" THEN ParseOk(Obj(props), val.next + 1)
                   ELSE IF t[val.next] = "," THEN ParseMembers(t, val.next + 1, props)
                   ELSE ParseFail

ParseValue(t, i) ==
    IF i > Len(t) THEN ParseFail
    ELSE IF t[i] = "\"" THEN ParseString(t, i)
    ELSE IF t[i] = "-" \/ IsDigit(t[i]) THEN ParseNumber(t, i)
    ELSE IF t[i] = "n"
         THEN IF TextAt(t, i, NullText) THEN ParseOk(Null, i + 4) ELSE ParseFail
    ELSE IF t[i] = "{"
         THEN IF i < Len(t) /\ t[i + 1] = "}" THEN ParseOk(EmptyObj, i + 2)
              ELSE ParseMembers(t, i + 1, << >>)
    ELSE IF t[i] = "["
         THEN IF i < Len(t) /\ t[i + 1] = "]" THEN ParseOk(Arr(<< >>), i + 2)
              ELSE ParseElements(t, i + 1, << >>)
    ELSE ParseFail

\* JSON.parse(t): ok is FALSE where JSON.parse throws a SyntaxError.
JSONparse(t) ==
    LET r == ParseValue(t, 1) IN
    IF r.ok /\ r.next = Len(t) + 1 THEN [ok |-> TRUE, v |-> r.v]
    ELSE [ok |-> FALSE, v |-> Null]

----------------------------------------------------------------------------
(* Unary plus and String.prototype.substring, as the decoder uses them.    *)

\* The result of +text where the text is not numeric.  No length the decoder
\* reads is negative, and StrictEquals treats this value as NaN.
NaN == -1

\* readLength === awaitLength: false whenever an operand is NaN.
StrictEquals(a, b) == a # NaN /\ b # NaN /\ a = b

IsWhiteSpace(c) == c \in {" ", "\r", "\n", "\t"}

RECURSIVE TrimStart(_)
TrimStart(t) ==
    IF t # << >> /\ IsWhiteSpace(Head(t)) THEN TrimStart(Tail(t)) ELSE t

RECURSIVE TrimEnd(_)
TrimEnd(t) ==
    IF t # << >> /\ IsWhiteSpace(t[Len(t)])
    THEN TrimEnd(SubSeq(t, 1, Len(t) - 1))
    ELSE t

\* +text: white space is trimmed, the empty text is 0, a digit sequence is
\* its decimal value, and any other text here is not numeric.
ToNumber(text) ==
    LET t == TrimEnd(TrimStart(text)) IN
    IF t = << >> THEN 0
    ELSE IF \A i \in 1..Len(t) : IsDigit(t[i]) THEN ParseDigits(t, 1, 0).n
    ELSE NaN

\* text.substring(start, end_): 0-based, end_ exclusive, both clamped to
\* 0..length and swapped when start > end_.
Substring(text, start, end_) ==
    LET clamp(x) == IF x < 0 THEN 0 ELSE IF x > Len(text) THEN Len(text) ELSE x
        a == clamp(start)
        b == clamp(end_)
    IN  IF a <= b THEN SubSeq(text, a + 1, b) ELSE SubSeq(text, b + 1, a)

----------------------------------------------------------------------------
(* Map<K, V>: the entries in insertion order. *)

EmptyMap == << >>

MapHas(m, key) == \E i \in 1..Len(m) : m[i].key = key

\* m.get(key): undefined when the map has no such key.
MapGet(m, key) ==
    IF MapHas(m, key)
    THEN m[CHOOSE i \in 1..Len(m) : m[i].key = key].value
    ELSE Undefined

\* m.set(key, value)
MapSet(m, key, value) ==
    IF MapHas(m, key)
    THEN [i \in 1..Len(m) |->
            IF m[i].key = key THEN [key |-> key, value |-> value] ELSE m[i]]
    ELSE Append(m, [key |-> key, value |-> value])

\* m.delete(key)
MapDelete(m, key) == SelectSeq(m, LAMBDA e : e.key # key)

MapKeys(m) == {m[i].key : i \in 1..Len(m)}

----------------------------------------------------------------------------
(* The state of the program. *)

VARIABLES
    msgStage,               \* 0 header line, 1 lines up to the blank one, 2 body
    received,               \* the accumulator text
    awaitLength,            \* body length read from the header line
    readLength,             \* body characters consumed
    pendingRequests,        \* Map: request id -> request sent
    notificationListeners,  \* Map: method -> handler
    requestListeners,       \* Map: method -> handler
    responseListeners,      \* Map: request method -> response callback
    serverCababilities,     \* capabilities of the last initialize result
    fserver,                \* "undefined" until activate spawns the server
    sink,                   \* the writes to fserver.stdin, in order
    stream,                 \* all text the server wrote to its stdout
    delivered,              \* characters of stream handed to onMessageReceived
    frames,                 \* history: the frames the server wrote
    chunk,                  \* history: the last call of onMessageReceived
    log,                    \* history: the dispatches of interpretMessage
    issued,                 \* ids randomUUID has returned
    path,                   \* "undefined" or "set": serverExecutablePath
    activation,             \* "none", "aborted" (path unset) or "done"
    deactivated             \* whether deactivate has run

vars == <<msgStage, received, awaitLength, readLength, pendingRequests,
          notificationListeners, requestListeners, responseListeners,
          serverCababilities, fserver, sink, stream, delivered, frames,
          chunk, log, issued, path, activation, deactivated>>

\* The ids randomUUID returns, as short texts.
UUIDs == {<<"a","b","c">>, <<"x","y","z">>}

\* What a request listener may do when called: return a ClientResponse with
\* result, error, both or neither set, or throw.
HandlerOutcomes == {"result", "error", "both", "neither", "throws"}

\* The part of the state a handler run reads and writes.
Current ==
    [msgStage |-> msgStage, received |-> received, awaitLength |-> awaitLength,
     readLength |-> readLength, pendingRequests |-> pendingRequests,
     serverCababilities |-> serverCababilities, fserver |-> fserver,
     sink |-> sink, log |-> log, consumed |-> delivered, threw |-> FALSE,
     steps |-> << >>]

----------------------------------------------------------------------------
(* The frame encoder. *)

\* The character U+00E9, e with acute accent: one element of a text, as it
\* is one UTF-16 code unit of a JavaScript string.
EAcute == "U+00E9"

\* The bytes of a character in UTF-8, the encoding fserver.stdin writes
\* strings in.
Utf8Bytes(c) == IF c = EAcute THEN 2 ELSE 1

RECURSIVE Utf8LengthOf(_, _, _)
\* The bytes of text[from..to], the range being split in two halves to keep
\* the evaluation shallow.
Utf8LengthOf(text, from, to) ==
    IF from > to THEN 0
    ELSE IF from = to THEN Utf8Bytes(text[from])
    ELSE LET mid == (from + to) \div 2 IN
         Utf8LengthOf(text, from, mid) + Utf8LengthOf(text, mid + 1, to)

\* The byte length of the UTF-8 encoding of a text.
Utf8Length(text) == Utf8LengthOf(text, 1, Len(text))

\* Mutant: the length announced counts the header's own line ends.
FullStr_CountsLineEnds(msgStr) ==
    ContentLengthText \o NumToText(Len(msgStr) + 4) \o CRLF \o CRLF \o msgStr

\* "Content-Length: " + msgStr.length + "\r\n\r\n" + msgStr
FullStr(msgStr) ==
    ContentLengthText \o NumToText(Len(msgStr)) \o CRLF \o CRLF \o msgStr

\* fserver.stdin?.write(fullStr): reading fserver.stdin throws while fserver
\* is undefined, and nothing is written.  The history entry of a write
\* holds, besides the text, the message and pendingRequests as it is when
\* the text is written.
Write(st, msg) ==
    IF st.fserver = "undefined" THEN st
    ELSE [st EXCEPT !.sink = Append(@, [text |-> FullStr(JSONstringify(msg)),
                                         msg |-> msg,
                                         pendingAt |-> st.pendingRequests])]

RequestMessage(id, method, params) ==
    Obj(<<Prop(K_id, Str(id)), Prop(K_jsonrpc, Str(V_2_0)),
          Prop(K_method, Str(method)), Prop(K_params, params)>>)

\* Mutant: the request is written before it is entered in pendingRequests.
sendRequest_WritesFirst(st, id, method, params) ==
    LET msg == RequestMessage(id, method, params) IN
    [Write(st, msg) EXCEPT !.pendingRequests = MapSet(@, Str(id), msg)]

\* Mutant: the new call replaces the calls that are pending.
sendRequest_ReplacesLedger(st, id, method, params) ==
    LET msg == RequestMessage(id, method, params) IN
    Write([st EXCEPT !.pendingRequests = MapSet(EmptyMap, Str(id), msg)], msg)

sendRequest(st, id, method, params) ==
    LET msg == RequestMessage(id, method, params) IN
    Write([st EXCEPT !.pendingRequests = MapSet(@, Str(id), msg)], msg)

NotificationMessage(method, params) ==
    Obj(<<Prop(K_jsonrpc, Str(V_2_0)), Prop(K_method, Str(method)),
          Prop(K_params, params)>>)

\* Mutant: the notification is entered in pendingRequests under its method.
sendNotification_EntersLedger(st, method, params) ==
    LET msg == NotificationMessage(method, params) IN
    Write([st EXCEPT !.pendingRequests = MapSet(@, Str(method), msg)], msg)

sendNotification(st, method, params) ==
    Write(st, NotificationMessage(method, params))

ResponseMessage(request, result, error) ==
    Obj(<<Prop(K_error, error), Prop(K_id, Get(request, K_id)),
          Prop(K_jsonrpc, Str(V_2_0)), Prop(K_result, result)>>)

sendResponse(st, request, result, error) ==
    Write(st, ResponseMessage(request, result, error))

----------------------------------------------------------------------------
(* The listeners.  A call yields the state it leaves and what it returned: *)
(* "true" or "false" (a response callback), "returned", or "threw".        *)

HandlerResult == EmptyObj

HandlerError ==
    Obj(<<Prop(K_code, Num(INVALID_PARAMS)), Prop(K_message, Str(<<"e">>))>>)

Ret(st, ret) == [st |-> st, ret |-> ret]

onInitializeResponse(st, request, response) ==
    LET result == PropOf(response, K_result) IN
    IF Truthy(result)
    THEN LET capabilities == PropOf(result, K_capabilities)
             st1 == [st EXCEPT !.serverCababilities = capabilities]
         IN  IF capabilities.t \in {"undefined", "null"}
             THEN Ret(st1, "threw")    \* serverCababilities.workspace
             ELSE Ret(sendNotification(st1, M_initialized, EmptyObj), "true")
    ELSE Ret(st, "true")

onShutdownResponse(st, request, response) ==
    Ret(sendNotification(st, M_exit, EmptyObj), "true")

\* The diagnostics go to the editor's collection, which is no state of the
\* transport; the call throws where it reads a property of undefined or null
\* or calls forEach on what is no array.
onPublishDiagnosticsNotification(st, params) ==
    IF params.t \in {"undefined", "null"} THEN Ret(st, "threw")
    ELSE LET diagnostics == PropOf(params, K_diagnostics) IN
         IF diagnostics.t # "arr" THEN Ret(st, "threw")
         ELSE IF \E i \in 1..Len(diagnostics.a) :
                    diagnostics.a[i].t \in {"undefined", "null"}
              THEN Ret(st, "threw")
              ELSE Ret(st, "returned")

\* The trace lines go to the editor's output channel.
onLogTraceNotification(st, params) ==
    IF params.t \in {"undefined", "null"} THEN Ret(st, "threw")
    ELSE Ret(st, "returned")

\* A response callback of the transport's client: the exchange is complete
\* when the response brings a result, and it keeps the call for a later
\* response otherwise.
responseListener(st, request, response) ==
    Ret(st, IF PropOf(response, K_result) # Undefined THEN "true" ELSE "false")

\* fn(request, response) for a response callback fn.
CallResponseListener(fn, st, request, response) ==
    CASE fn = "onInitializeResponse" -> onInitializeResponse(st, request, response)
      [] fn = "onShutdownResponse" -> onShutdownResponse(st, request, response)
      [] fn = "responseListener" -> responseListener(st, request, response)

\* fn(params) for a notification listener fn.
CallNotificationListener(fn, st, params) ==
    CASE fn = "onPublishDiagnosticsNotification" ->
            onPublishDiagnosticsNotification(st, params)
      [] fn = "onLogTraceNotification" -> onLogTraceNotification(st, params)

\* fn(params) for a request listener: the ClientResponse it returns, by the
\* outcome the listener takes in this call.
ClientResponse(outcome) ==
    CASE outcome = "result" -> Obj(<<Prop(K_result, HandlerResult)>>)
      [] outcome = "error" -> Obj(<<Prop(K_error, HandlerError)>>)
      [] outcome = "both" ->
            Obj(<<Prop(K_result, HandlerResult), Prop(K_error, HandlerError)>>)
      [] outcome = "neither" -> EmptyObj

----------------------------------------------------------------------------
(* interpretMessage.  The function is async and awaits nothing: its body   *)
(* runs to its end, or to the first exception, inside the call, and an     *)
(* exception rejects the promise it returns and goes no further.           *)

\* The decoder's variables in st.
DecoderOf(st) ==
    [msgStage |-> st.msgStage, received |-> st.received,
     awaitLength |-> st.awaitLength, readLength |-> st.readLength]

\* The history entry of one dispatch: st0 is the state before it, st1 after.
Dispatched(st0, st1, kind, obj, listener, args, outcome, report) ==
    [st1 EXCEPT !.log = Append(@,
        [at |-> st0.consumed, kind |-> kind, payload |-> obj,
         listener |-> listener, args |-> args, outcome |-> outcome,
         report |-> report,
         sinkFrom |-> Len(st0.sink), sinkTo |-> Len(st1.sink),
         decoderBefore |-> DecoderOf(st0), decoderAfter |-> DecoderOf(st1),
         pendingBefore |-> st0.pendingRequests,
         pendingAfter |-> st1.pendingRequests])]

\* Mutant: the error code is that of an internal error.
MethodNotFound_InternalError(request) ==
    Obj(<<Prop(K_code, Num(INTERNAL_ERROR)),
          Prop(K_message,
               Str(MethodText \o Get(request, K_method).s \o NotFoundText))>>)

MethodNotFound(request) ==
    Obj(<<Prop(K_code, Num(METHOD_NOT_FOUND)),
          Prop(K_message,
               Str(MethodText \o Get(request, K_method).s \o NotFoundText))>>)

\* Mutant: the response is left for later and is not written by the time
\* the dispatch returns.
InterpretRequest_DefersResponse(st, request, outcome) ==
    Dispatched(st, st, "Request", request, "", << >>, "", "")

\* Mutant: a request whose method has no request listener is handed to the
\* notification listener of the method, if there is one.
InterpretRequest_SharedTables(st, request, outcome) ==
    LET fn == MapGet(notificationListeners, Get(request, K_method))
        params == Get(request, K_params)
    IN  IF fn # Undefined
        THEN LET r == CallNotificationListener(fn.name, st, params) IN
             Dispatched(st, sendResponse(r.st, request, EmptyObj, Undefined),
                        "Request", request, fn.name, <<params>>, r.ret, "")
        ELSE Dispatched(st,
                        sendResponse(st, request, Undefined,
                                     MethodNotFound(request)),
                        "Request", request, "", << >>, "", "")

\* if ('id' in obj): it's a request
InterpretRequest(st, request, outcome) ==
    LET fn == MapGet(requestListeners, Get(request, K_method))
        params == Get(request, K_params)
    IN  IF fn # Undefined
        THEN IF outcome = "throws"
             THEN Dispatched(st, st, "Request", request, fn.name, <<params>>,
                             "threw", "")
             ELSE LET obj == ClientResponse(outcome) IN
                  Dispatched(st,
                             sendResponse(st, request, Get(obj, K_result),
                                          Get(obj, K_error)),
                             "Request", request, fn.name, <<params>>, "returned", "")
        ELSE Dispatched(st,
                        sendResponse(st, request, Undefined,
                                     MethodNotFound(request)),
                        "Request", request, "", << >>, "", "")

\* Mutant: a notification without a listener is answered as an unknown
\* request is.
InterpretNotification_AnswersUnknown(st, notification) ==
    LET fn == MapGet(notificationListeners, Get(notification, K_method))
        params == Get(notification, K_params)
    IN  IF fn # Undefined
        THEN LET r == CallNotificationListener(fn.name, st, params) IN
             Dispatched(st, r.st, "Notification", notification, fn.name,
                        <<params>>, r.ret, "")
        ELSE Dispatched(st,
                        sendResponse(st, notification, Undefined,
                                     MethodNotFound(notification)),
                        "Notification", notification, "", << >>, "", "")

\* else: it's a notification
InterpretNotification(st, notification) ==
    LET fn == MapGet(notificationListeners, Get(notification, K_method))
        params == Get(notification, K_params)
    IN  IF fn # Undefined
        THEN LET r == CallNotificationListener(fn.name, st, params) IN
             Dispatched(st, r.st, "Notification", notification, fn.name,
                        <<params>>, r.ret, "")
        ELSE Dispatched(st, st, "Notification", notification, "", << >>, "", "")

\* Mutant: the callback is the first one registered, whatever the method
\* of the pending request.
InterpretResponse_FirstListener(st, response) ==
    LET id == PropOf(response, K_id)
        request == MapGet(st.pendingRequests, id)
    IN  IF id # Null /\ request # Undefined
        THEN LET fn == responseListeners[1].value
                 r == CallResponseListener(fn.name, st, request, response)
             IN  Dispatched(st,
                     IF r.ret = "true"
                     THEN [r.st EXCEPT !.pendingRequests = MapDelete(@, id)]
                     ELSE r.st,
                     "Response", response, fn.name, <<request, response>>,
                     r.ret, "")
        ELSE Dispatched(st, st, "Response", response, "", << >>, "", "")

\* Mutant: a response whose id is not pending is dropped without a report.
InterpretResponse_UnknownIdSilent(st, response) ==
    LET id == PropOf(response, K_id)
        request == MapGet(st.pendingRequests, id)
        fn == MapGet(responseListeners, Get(request, K_method))
    IN  IF id = Null
        THEN Dispatched(st, st, "Response", response, "", << >>, "",
                        "Missing id field form response.")
        ELSE IF request # Undefined /\ fn # Undefined
        THEN LET r == CallResponseListener(fn.name, st, request, response) IN
             Dispatched(st,
                        IF r.ret = "true"
                        THEN [r.st EXCEPT !.pendingRequests = MapDelete(@, id)]
                        ELSE r.st,
                        "Response", response, fn.name, <<request, response>>,
                        r.ret, "")
        ELSE Dispatched(st, st, "Response", response, "", << >>, "", "")

\* Mutant: a response whose id is null is dropped without a report.
InterpretResponse_NullIdSilent(st, response) ==
    LET id == PropOf(response, K_id)
        request == MapGet(st.pendingRequests, id)
        fn == MapGet(responseListeners, Get(request, K_method))
    IN  IF id = Null
        THEN Dispatched(st, st, "Response", response, "", << >>, "", "")
        ELSE IF request = Undefined
        THEN Dispatched(st, st, "Response", response, "", << >>, "",
                        "Pending request not found.")
        ELSE IF fn # Undefined
        THEN LET r == CallResponseListener(fn.name, st, request, response) IN
             Dispatched(st,
                        IF r.ret = "true"
                        THEN [r.st EXCEPT !.pendingRequests = MapDelete(@, id)]
                        ELSE r.st,
                        "Response", response, fn.name, <<request, response>>,
                        r.ret, "")
        ELSE Dispatched(st, st, "Response", response, "", << >>, "", "")

\* Mutant: the pending call stays whatever the callback returned.
InterpretResponse_NeverRemoves(st, response) ==
    LET id == PropOf(response, K_id) IN
    IF id # Null
    THEN LET request == MapGet(st.pendingRequests, id) IN
         IF request # Undefined
         THEN LET fn == MapGet(responseListeners, Get(request, K_method)) IN
              IF fn # Undefined
              THEN LET r == CallResponseListener(fn.name, st, request, response)
                   IN  Dispatched(st, r.st, "Response", response, fn.name,
                                  <<request, response>>, r.ret, "")
              ELSE Dispatched(st, st, "Response", response, "", << >>, "", "")
         ELSE Dispatched(st, st, "Response", response, "", << >>, "",
                         "Pending request not found.")
    ELSE Dispatched(st, st, "Response", response, "", << >>, "",
                    "Missing id field form response.")

\* Mutant: the pending call is removed whatever the callback returned.
InterpretResponse_AlwaysRemoves(st, response) ==
    LET id == PropOf(response, K_id)
        request == MapGet(st.pendingRequests, id)
        fn == MapGet(responseListeners, Get(request, K_method))
    IN  IF id # Null /\ request # Undefined /\ fn # Undefined
        THEN LET r == CallResponseListener(fn.name, st, request, response) IN
             Dispatched(st,
                        [r.st EXCEPT !.pendingRequests = MapDelete(@, id)],
                        "Response", response, fn.name, <<request, response>>,
                        r.ret, "")
        ELSE Dispatched(st, st, "Response", response, "", << >>, "", "")

\* else: it's a response
InterpretResponse(st, response) ==
    LET id == PropOf(response, K_id) IN
    IF id # Null
    THEN LET request == MapGet(st.pendingRequests, id) IN
         IF request # Undefined
         THEN LET fn == MapGet(responseListeners, Get(request, K_method)) IN
              IF fn # Undefined
              THEN LET r == CallResponseListener(fn.name, st, request, response)
                       shouldRemove == r.ret = "true"
                   IN  Dispatched(st,
                           IF shouldRemove
                           THEN [r.st EXCEPT !.pendingRequests = MapDelete(@, id)]
                           ELSE r.st,
                           "Response", response, fn.name, <<request, response>>,
                           r.ret, "")
              ELSE Dispatched(st, st, "Response", response, "", << >>, "", "")
         ELSE Dispatched(st, st, "Response", response, "", << >>, "",
                         "Pending request not found.")
    ELSE Dispatched(st, st, "Response", response, "", << >>, "",
                    "Missing id field form response.")

\* Mutant: the function is not async, and what a listener throws goes on
\* into onMessageReceived.
interpretMessage_Synchronous(st, obj, outcome) ==
    LET st1 == IF obj.t \notin {"obj", "arr"}
               THEN Dispatched(st, st, "TypeError", obj, "", << >>, "", "")
               ELSE IF In(K_method, obj)
                    THEN IF In(K_id, obj)
                         THEN InterpretRequest(st, obj, outcome)
                         ELSE InterpretNotification(st, obj)
                    ELSE InterpretResponse(st, obj)
    IN  IF st1.log[Len(st1.log)].outcome = "threw"
        THEN [st1 EXCEPT !.threw = TRUE]
        ELSE st1

\* obj is what JSON.parse returned; outcome is what a request listener does
\* if this call reaches one.  'method' in obj throws a TypeError when obj is
\* no object (null, a number, a string).
interpretMessage(st, obj, outcome) ==
    IF obj.t \notin {"obj", "arr"}
    THEN Dispatched(st, st, "TypeError", obj, "", << >>, "", "")
    ELSE IF In(K_method, obj)
         THEN IF In(K_id, obj)
              THEN InterpretRequest(st, obj, outcome)
              ELSE InterpretNotification(st, obj)
         ELSE InterpretResponse(st, obj)

----------------------------------------------------------------------------
(* onMessageReceived.  Each of its three inner loops takes the characters  *)
(* of data one by one from beginIndex on and hands over to the loop of the *)
(* next stage by continue mainwhile, so the call is one pass over data in  *)
(* which each character is taken by the loop of the current stage.         *)

\* The history entry of a round that ended a line (stage 0 or 1) or a body
\* (stage 2): text is what was accumulated when it ended, st the state the
\* round leaves.
Stepped(st, stage, text) ==
    [st EXCEPT !.steps = Append(@,
        [stage |-> stage, at |-> st.consumed, text |-> text,
         logLen |-> Len(st.log), threw |-> st.threw,
         decoder |-> DecoderOf(st)])]

\* One round of the loop for msgStage 0, on character c.
HeaderChar(st, c) ==
    IF c = "\n"
    THEN Stepped([st EXCEPT
                    !.awaitLength =
                        ToNumber(Substring(st.received, contentLength,
                                           Len(st.received) - 1)),
                    !.received = << >>,
                    !.msgStage = 1],
                 0, st.received)
    ELSE [st EXCEPT !.received = Append(@, c)]

\* One round of the loop for msgStage 1, on character c.
HeaderEndChar(st, c) ==
    IF c = "\n"
    THEN IF Len(st.received) = 1
         THEN Stepped([st EXCEPT !.received = << >>, !.msgStage = 2],
                      1, st.received)
         ELSE Stepped([st EXCEPT !.received = << >>], 1, st.received)
    ELSE [st EXCEPT !.received = Append(@, c)]

\* Mutant: the call returns after the first message it dispatches.
BodyChar_ReturnsAfterDispatch(st, c, outcome) ==
    LET st1 == [st EXCEPT !.readLength = @ + 1, !.received = Append(@, c)] IN
    IF StrictEquals(st1.readLength, st1.awaitLength)
    THEN LET st2 == [st1 EXCEPT !.msgStage = 0, !.readLength = 0]
             parsed == JSONparse(st2.received)
         IN  IF parsed.ok
             THEN [interpretMessage(st2, parsed.v, outcome)
                     EXCEPT !.received = << >>, !.threw = TRUE]
             ELSE [st2 EXCEPT !.threw = TRUE]
    ELSE st1

\* Mutant: the accumulator is not emptied after the dispatch.
BodyChar_KeepsAccumulator(st, c, outcome) ==
    LET st1 == [st EXCEPT !.readLength = @ + 1, !.received = Append(@, c)] IN
    IF StrictEquals(st1.readLength, st1.awaitLength)
    THEN LET st2 == [st1 EXCEPT !.msgStage = 0, !.readLength = 0]
             parsed == JSONparse(st2.received)
         IN  IF parsed.ok
             THEN Stepped(interpretMessage(st2, parsed.v, outcome),
                          2, st2.received)
             ELSE Stepped([st2 EXCEPT !.threw = TRUE], 2, st2.received)
    ELSE st1

\* One round of the loop for msgStage 2, on character c.  JSON.parse throws
\* out of onMessageReceived before received is cleared.
BodyChar(st, c, outcome) ==
    LET st1 == [st EXCEPT !.readLength = @ + 1, !.received = Append(@, c)] IN
    IF StrictEquals(st1.readLength, st1.awaitLength)
    THEN LET st2 == [st1 EXCEPT !.msgStage = 0, !.readLength = 0]
             parsed == JSONparse(st2.received)
         IN  IF parsed.ok
             THEN Stepped([interpretMessage(st2, parsed.v, outcome)
                             EXCEPT !.received = << >>],
                          2, st2.received)
             ELSE Stepped([st2 EXCEPT !.threw = TRUE], 2, st2.received)
    ELSE st1

\* One round of the loop of the current stage, on character c; consumed
\* counts the characters of the stream the rounds have taken.  No round runs
\* once JSON.parse has thrown.
Round(st, c, outcome) ==
    IF st.threw THEN st
    ELSE LET st1 == [st EXCEPT !.consumed = @ + 1] IN
         CASE st.msgStage = 0 -> HeaderChar(st1, c)
           [] st.msgStage = 1 -> HeaderEndChar(st1, c)
           [] st.msgStage = 2 -> BodyChar(st1, c, outcome)

RECURSIVE MainWhile(_, _, _, _, _)
\* The rounds on data[beginIndex..endIndex] in order, the range being split
\* in two halves to keep the evaluation shallow.
MainWhile(st, data, beginIndex, endIndex, outcome) ==
    IF beginIndex > endIndex THEN st
    ELSE IF beginIndex = endIndex THEN Round(st, data[beginIndex], outcome)
    ELSE LET mid == (beginIndex + endIndex) \div 2
             half == MainWhile(st, data, beginIndex, mid, outcome)
         IN  IF half.threw THEN half
             ELSE MainWhile(half, data, mid + 1, endIndex, outcome)

\* Mutant: the accumulator is local to the call.
onMessageReceived_LocalAccumulator(st, data, outcome) ==
    MainWhile([st EXCEPT !.received = << >>], data, 1, Len(data), outcome)

onMessageReceived(st, data, outcome) ==
    MainWhile(st, data, 1, Len(data), outcome)

----------------------------------------------------------------------------
(* The frames the server writes. *)

ABC == <<"a","b","c">>
M_m == <<"m">>
M_n == <<"n">>
M_rq == <<"r","q">>

\* A frame: a Content-Length line announcing n, a blank line, each ended by
\* eol, and the body text.  of is 0, or the index in sink of the write that
\* the frame repeats.
MkFrame(body, n, eol) ==
    [text |-> ContentLengthText \o NumToText(n) \o eol \o eol \o body,
     body |-> body, length |-> n, eol |-> eol, of |-> 0]

\* The frame of a message, as the base protocol lays it out.
FrameOf(msg) == MkFrame(JSONstringify(msg), Len(JSONstringify(msg)), CRLF)

\* {"id":"abc","result":{}}
ResponseEmptyResult == Obj(<<Prop(K_id, Str(ABC)), Prop(K_result, EmptyObj)>>)

\* {"id":"abc","result":{"capabilities":{}}}
ResponseCapabilities ==
    Obj(<<Prop(K_id, Str(ABC)),
          Prop(K_result, Obj(<<Prop(K_capabilities, EmptyObj)>>))>>)

\* {"id":1,"method":"m"}
RequestUnknown == Obj(<<Prop(K_id, Num(1)), Prop(K_method, Str(M_m))>>)

\* {"id":2,"method":"rq","params":{}}
RequestRq ==
    Obj(<<Prop(K_id, Num(2)), Prop(K_method, Str(M_rq)),
          Prop(K_params, EmptyObj)>>)

\* {"id":null,"method":"m","result":1}
RequestNullIdWithResult ==
    Obj(<<Prop(K_id, Null), Prop(K_method, Str(M_m)), Prop(K_result, Num(1))>>)

\* {"method":"$/logTrace","params":{"message":"x"}}
NotificationLogTrace ==
    Obj(<<Prop(K_method, Str(M_logTrace)),
          Prop(K_params, Obj(<<Prop(K_message, Str(<<"x">>))>>))>>)

\* {"method":"n","error":{}}
NotificationUnknownWithError ==
    Obj(<<Prop(K_method, Str(M_n)), Prop(K_error, EmptyObj)>>)

\* {"result":1}
ResponseNoId == Obj(<<Prop(K_result, Num(1))>>)

\* The frame of spec.md's concrete scenario: Content-Length: 23, bare line
\* feeds, {"id":"abc","result":{}}.
ScenarioFrame == MkFrame(JSONstringify(ResponseEmptyResult), 23, LF)

\* The frame of ResponseEmptyResult with its lines ended by a bare line feed.
LineFeedFrame ==
    MkFrame(JSONstringify(ResponseEmptyResult),
            Len(JSONstringify(ResponseEmptyResult)), LF)

\* {"id":null,"result":1}
ResponseNullId == Obj(<<Prop(K_id, Null), Prop(K_result, Num(1))>>)

\* {"id":3,"method":"$/logTrace","params":{"message":"x"}}: a request with
\* a method that has a notification listener.
RequestLogTrace ==
    Obj(<<Prop(K_id, Num(3)), Prop(K_method, Str(M_logTrace)),
          Prop(K_params, Obj(<<Prop(K_message, Str(<<"x">>))>>))>>)

\* {"id":4,"method":"initialize"}: a request with a method that has a
\* response callback.
RequestInitialize ==
    Obj(<<Prop(K_id, Num(4)), Prop(K_method, Str(M_initialize))>>)

\* A complete frame whose body, {, is no JSON text.
BadJsonFrame == MkFrame(<<"{">>, 1, CRLF)

\* A frame whose header line holds x where the length belongs.
MalformedLengthFrame ==
    [text |-> ContentLengthText \o <<"x">> \o CRLF \o CRLF
                \o JSONstringify(EmptyObj),
     body |-> JSONstringify(EmptyObj), length |-> NaN, eol |-> CRLF, of |-> 0]

\* The frames of the protocol runs.
ProtocolFrames ==
    {FrameOf(ResponseEmptyResult), FrameOf(ResponseCapabilities),
     FrameOf(RequestUnknown),
     FrameOf(RequestNullIdWithResult), FrameOf(NotificationLogTrace),
     FrameOf(NotificationUnknownWithError), FrameOf(ResponseNoId),
     FrameOf(ResponseNullId), FrameOf(Null), ScenarioFrame, LineFeedFrame,
     BadJsonFrame, MalformedLengthFrame}

\* {"method":"$/logTrace"}
NotificationLogTraceNoParams == Obj(<<Prop(K_method, Str(M_logTrace))>>)

\* The frames of the runs with a request listener.
ListenerFrames ==
    {FrameOf(RequestRq), FrameOf(RequestUnknown), FrameOf(NotificationLogTrace),
     FrameOf(NotificationLogTraceNoParams), FrameOf(ResponseEmptyResult),
     FrameOf(RequestLogTrace), FrameOf(RequestInitialize)}

\* {"id":<id>,"result":{"capabilities":{}}}
ResponseResult(id) ==
    Obj(<<Prop(K_id, Str(id)),
          Prop(K_result, Obj(<<Prop(K_capabilities, EmptyObj)>>))>>)

\* {"id":<id>,"error":{"code":-32603,"message":"e"}}
ResponseError(id) ==
    Obj(<<Prop(K_id, Str(id)),
          Prop(K_error, Obj(<<Prop(K_code, Num(INTERNAL_ERROR)),
                              Prop(K_message, Str(<<"e">>))>>))>>)

\* A frame that announces a body of no characters.
ZeroLengthFrame == MkFrame(<< >>, 0, CRLF)

\* The frames of the runs with a call of the client: the responses to the
\* ids randomUUID returns, and a frame with an empty body.
CallFrames ==
    {FrameOf(ResponseResult(id)) : id \in UUIDs}
        \cup {FrameOf(ResponseError(id)) : id \in UUIDs}
        \cup {ZeroLengthFrame}

\* The well-formed frames of the decoder runs, besides the echoes of what
\* the client wrote.
CodecFrames ==
    {FrameOf(ResponseCapabilities), FrameOf(RequestUnknown),
     FrameOf(NotificationLogTrace)}

\* The frame that hands the i-th write of the client back to it unchanged.
Echo(i) ==
    [text |-> sink[i].text, body |-> JSONstringify(sink[i].msg),
     length |-> Len(JSONstringify(sink[i].msg)), eol |-> CRLF, of |-> i]

WellFormed(f) == f.eol = CRLF /\ f.length = Len(f.body) /\ JSONparse(f.body).ok

----------------------------------------------------------------------------
(* The operations. *)

Init ==
    /\ msgStage = 0
    /\ received = << >>
    /\ awaitLength = 0
    /\ readLength = 0
    /\ pendingRequests = EmptyMap
    /\ notificationListeners = EmptyMap
    /\ requestListeners = EmptyMap
    /\ responseListeners = EmptyMap
    /\ serverCababilities = Undefined
    /\ fserver = "undefined"
    /\ sink = << >>
    /\ stream = << >>
    /\ delivered = 0
    /\ frames = << >>
    /\ chunk = [from |-> 0, to |-> 0, logFrom |-> 0, logTo |-> 0,
                threw |-> FALSE, consumed |-> 0, steps |-> << >>,
                before |-> [msgStage |-> 0, received |-> << >>,
                            awaitLength |-> 0, readLength |-> 0,
                            pendingRequests |-> EmptyMap]]
    /\ log = << >>
    /\ issued = {}
    /\ path \in {"undefined", "set"}
    /\ activation = "none"
    /\ deactivated = FALSE

\* What a handler run left, written back to the variables.
Store(st) ==
    /\ msgStage' = st.msgStage
    /\ received' = st.received
    /\ awaitLength' = st.awaitLength
    /\ readLength' = st.readLength
    /\ pendingRequests' = st.pendingRequests
    /\ serverCababilities' = st.serverCababilities
    /\ fserver' = st.fserver
    /\ sink' = st.sink
    /\ log' = st.log

\* initializeParams where the workspace has no folders, without clientInfo,
\* trace and capabilities; processId is process.pid.
InitializeParams ==
    Obj(<<Prop(K_processId, Num(1)), Prop(K_workspaceFolders, Arr(<< >>)),
          Prop(K_rootUri, Null)>>)

\* Mutant: activate sends the initialize request and registers no listener.
Activate_RegistersNothing ==
    /\ activation = "none"
    /\ path = "set"
    /\ \E id \in UUIDs \ issued :
        /\ issued' = issued \cup {id}
        /\ activation' = "done"
        /\ Store(sendRequest([Current EXCEPT !.fserver = "spawned"],
                             id, M_initialize, InitializeParams))
        /\ UNCHANGED <<notificationListeners, requestListeners,
                       responseListeners, stream, delivered, frames, chunk,
                       path, deactivated>>

\* activate(context); id is what randomUUID returns in sendRequest, a value
\* it has not returned before.
Activate ==
    /\ activation = "none"
    /\ IF path = "undefined"
       THEN /\ activation' = "aborted"
            /\ UNCHANGED <<msgStage, received, awaitLength, readLength,
                           pendingRequests, notificationListeners,
                           requestListeners, responseListeners,
                           serverCababilities, fserver, sink, stream,
                           delivered, frames, chunk, log, issued, path,
                           deactivated>>
       ELSE \E id \in UUIDs \ issued :
            /\ issued' = issued \cup {id}
            /\ activation' = "done"
            /\ responseListeners' =
                 MapSet(MapSet(responseListeners, Str(M_initialize),
                               Fn("onInitializeResponse")),
                        Str(M_shutdown), Fn("onShutdownResponse"))
            /\ notificationListeners' =
                 MapSet(MapSet(notificationListeners, Str(M_publishDiagnostics),
                               Fn("onPublishDiagnosticsNotification")),
                        Str(M_logTrace), Fn("onLogTraceNotification"))
            /\ Store(sendRequest([Current EXCEPT !.fserver = "spawned"],
                                 id, M_initialize, InitializeParams))
            /\ UNCHANGED <<requestListeners, stream, delivered, frames,
                           chunk, path, deactivated>>

\* deactivate(): sendRequest("shutdown", undefined).  The editor calls it
\* once, after activate has returned.
Deactivate ==
    /\ activation # "none"
    /\ ~deactivated
    /\ \E id \in UUIDs \ issued :
        /\ issued' = issued \cup {id}
        /\ deactivated' = TRUE
        /\ Store(sendRequest(Current, id, M_shutdown, Undefined))
        /\ UNCHANGED <<notificationListeners, requestListeners,
                       responseListeners, stream, delivered, frames, chunk,
                       path, activation>>

\* Code outside the transport registers a listener for inbound requests of
\* method "rq" before any traffic; the extension itself registers none.
RegisterRequestListener ==
    /\ activation = "none"
    /\ ~MapHas(requestListeners, Str(M_rq))
    /\ requestListeners' = MapSet(requestListeners, Str(M_rq), Fn("requestListener"))
    /\ UNCHANGED <<msgStage, received, awaitLength, readLength,
                   pendingRequests, notificationListeners, responseListeners,
                   serverCababilities, fserver, sink, stream, delivered,
                   frames, chunk, log, issued, path, activation, deactivated>>

\* The server process writes frame f to its stdout.
ServerWrite(f) ==
    /\ fserver = "spawned"
    /\ Len(frames) < MaxFrames
    /\ stream' = stream \o f.text
    /\ frames' = Append(frames, [from |-> Len(stream),
                                 to |-> Len(stream) + Len(f.text),
                                 frame |-> f])
    /\ UNCHANGED <<msgStage, received, awaitLength, readLength,
                   pendingRequests, notificationListeners, requestListeners,
                   responseListeners, serverCababilities, fserver, sink,
                   delivered, chunk, log, issued, path, activation,
                   deactivated>>

\* fserver.stdout emits 'data' with the next n characters of the stream:
\* onMessageReceived(data).  outcome is what a request listener does if the
\* call reaches one.
OnData(n, outcome) ==
    /\ fserver = "spawned"
    /\ n \in 1..(Len(stream) - delivered)
    /\ LET data == SubSeq(stream, delivered + 1, delivered + n)
           st == onMessageReceived(Current, data, outcome)
       IN  /\ Store(st)
           /\ delivered' = delivered + n
           /\ chunk' = [from |-> delivered, to |-> delivered + n,
                        logFrom |-> Len(log), logTo |-> Len(st.log),
                        threw |-> st.threw, consumed |-> st.consumed,
                        steps |-> st.steps,
                        before |-> [msgStage |-> msgStage,
                                    received |-> received,
                                    awaitLength |-> awaitLength,
                                    readLength |-> readLength,
                                    pendingRequests |-> pendingRequests]]
    /\ UNCHANGED <<notificationListeners, requestListeners, responseListeners,
                   stream, frames, issued, path, activation, deactivated>>

\* Everything the server has written is delivered in one call.  The
\* outcome matters only where a request listener is registered.
OnDataAll ==
    \E outcome \in (IF requestListeners = EmptyMap THEN {"neither"}
                    ELSE HandlerOutcomes) :
        OnData(Len(stream) - delivered, outcome)

\* The protocol runs of the extension as it is, with no request listener:
\* whole deliveries of the frames of ProtocolFrames.
Next ==
    \/ Activate
    \/ Deactivate
    \/ \E f \in ProtocolFrames : ServerWrite(f)
    \/ OnDataAll

Spec == Init /\ [][Next]_vars

\* The runs with a request listener registered or not: whole deliveries of
\* inbound requests and notifications.
NextListeners ==
    \/ RegisterRequestListener
    \/ Activate
    \/ \E f \in ListenerFrames : ServerWrite(f)
    \/ OnDataAll

SpecListeners == Init /\ [][NextListeners]_vars

\* Code outside the transport registers a response callback for method "m"
\* before any traffic.
RegisterResponseListener ==
    /\ activation = "none"
    /\ ~MapHas(responseListeners, Str(M_m))
    /\ responseListeners' =
         MapSet(responseListeners, Str(M_m), Fn("responseListener"))
    /\ UNCHANGED <<msgStage, received, awaitLength, readLength,
                   pendingRequests, notificationListeners, requestListeners,
                   serverCababilities, fserver, sink, stream, delivered,
                   frames, chunk, log, issued, path, activation, deactivated>>

\* The params of the client's call: none, or a string of the one character
\* e with acute accent.
CallParams == {Undefined, Str(<<EAcute>>)}

\* The client calls sendRequest("m", params) once the server runs.
SendRequestM ==
    /\ activation = "done"
    /\ \E id \in UUIDs \ issued, params \in CallParams :
        /\ issued' = issued \cup {id}
        /\ Store(sendRequest(Current, id, M_m, params))
        /\ UNCHANGED <<notificationListeners, requestListeners,
                       responseListeners, stream, delivered, frames, chunk,
                       path, activation, deactivated>>

\* The runs with a call of the client, its response callback registered or
\* not: whole deliveries of responses.
NextCalls ==
    \/ RegisterResponseListener
    \/ Activate
    \/ SendRequestM
    \/ \E f \in CallFrames : ServerWrite(f)
    \/ OnDataAll

SpecCalls == Init /\ [][NextCalls]_vars

\* The writes of the client that the server may echo.
Echoes == {Echo(i) : i \in 1..Len(sink)}

\* A delivery of at most MaxChunk characters, or of everything.
OnDataChunk ==
    \E n \in (1..MaxChunk) \cup {Len(stream) - delivered} :
        OnData(n, "neither")

\* The decoder runs: well-formed frames, the client's own writes among
\* them, delivered in chunks of any small size.
NextCodec ==
    \/ Activate
    \/ \E f \in CodecFrames \cup Echoes : ServerWrite(f)
    \/ OnDataChunk

SpecCodec == Init /\ [][NextCodec]_vars

----------------------------------------------------------------------------
(* Definitions the properties share. *)

RECURSIVE StripUndefined(_)
\* v without the properties whose value is undefined, at every depth: what
\* structural equality of a message and its JSON text compares.
StripUndefined(v) ==
    IF v.t = "obj"
    THEN LET kept == SelectSeq(v.o, LAMBDA p : p.v.t # "undefined") IN
         Obj([i \in 1..Len(kept) |->
                Prop(kept[i].k, StripUndefined(kept[i].v))])
    ELSE IF v.t = "arr"
    THEN Arr([i \in 1..Len(v.a) |-> StripUndefined(v.a[i])])
    ELSE v

\* The entries of the log that were dispatched on a character of positions
\* from + 1 .. to of the stream.
EventsIn(from, to) == {i \in 1..Len(log) : from < log[i].at /\ log[i].at <= to}

\* The decoder is between two frames with nothing accumulated.
Clean(d) == d.msgStage = 0 /\ d.received = << >> /\ d.readLength = 0

Decoder ==
    [msgStage |-> msgStage, received |-> received,
     awaitLength |-> awaitLength, readLength |-> readLength]

\* The text handed to the last call of onMessageReceived.
LastData == SubSeq(stream, chunk.from + 1, chunk.to)

----------------------------------------------------------------------------
\* C1: Round trip.  Whenever a frame written by sendRequest, sendNotification
\* or sendResponse has been handed back to onMessageReceived in full, in one
\* call or split over several, exactly one payload was dispatched on its
\* characters, on the last of them, and the payload equals the message that
\* was encoded (properties set to undefined aside).
C1_RoundTrip ==
    \A k \in 1..Len(frames) :
        (frames[k].frame.of > 0 /\ delivered >= frames[k].to) =>
            /\ Cardinality(EventsIn(frames[k].from, frames[k].to)) = 1
            /\ \A i \in EventsIn(frames[k].from, frames[k].to) :
                /\ log[i].at = frames[k].to
                /\ log[i].payload = StripUndefined(sink[frames[k].frame.of].msg)

\* A write of sendResponse came back in full, the last call having started
\* inside the frame.
C1_Witness ==
    \E k \in 1..Len(frames) :
        /\ frames[k].frame.of > 0
        /\ ~In(K_method, sink[frames[k].frame.of].msg)
        /\ delivered = frames[k].to
        /\ chunk.from > frames[k].from
        /\ EventsIn(frames[k].from, frames[k].to) # {}

----------------------------------------------------------------------------
\* The state a decoding starts from, with the server spawned.
InitialDecoding ==
    [msgStage |-> 0, received |-> << >>, awaitLength |-> 0, readLength |-> 0,
     pendingRequests |-> EmptyMap, serverCababilities |-> Undefined,
     fserver |-> "spawned", sink |-> << >>, log |-> << >>, consumed |-> 0,
     threw |-> FALSE]

\* C2: Chunk-boundary invariance.  However the stream delivered so far was
\* split into calls, the decoder state (msgStage, received, awaitLength,
\* readLength) and the payloads dispatched, with the positions they were
\* dispatched at, are those of a single call on the whole of it.
C2_ChunkInvariance ==
    LET one == onMessageReceived(InitialDecoding, SubSeq(stream, 1, delivered),
                                 "neither")
    IN  /\ one.msgStage = msgStage
        /\ one.received = received
        /\ one.awaitLength = awaitLength
        /\ one.readLength = readLength
        /\ Len(one.log) = Len(log)
        /\ \A i \in 1..Len(log) :
            one.log[i].payload = log[i].payload /\ one.log[i].at = log[i].at

\* The last call started between the two characters of the blank line of a
\* second frame and ended inside its body.
C2_Witness ==
    /\ chunk.before.msgStage = 1
    /\ chunk.before.received = <<"\r">>
    /\ msgStage = 2
    /\ readLength > 0
    /\ Len(log) = 1

\* C3: Multi-message batching.  A single call on a chunk that holds exactly
\* the complete frames i..j, j > i, with the decoder between frames before
\* it, dispatches one payload per frame, in the order of the frames, and
\* leaves the decoder in the header stage with nothing accumulated.
C3_Batching ==
    \A i, j \in 1..Len(frames) :
        ( /\ i < j
          /\ chunk.from = frames[i].from
          /\ chunk.to = frames[j].to
          /\ Clean(chunk.before)
          /\ \A m \in i..j : WellFormed(frames[m].frame) ) =>
            /\ chunk.logTo - chunk.logFrom = j - i + 1
            /\ \A m \in i..j :
                /\ log[chunk.logFrom + (m - i) + 1].payload
                     = JSONparse(frames[m].frame.body).v
                /\ log[chunk.logFrom + (m - i) + 1].at = frames[m].to
            /\ Clean(Decoder)

\* One call took two complete frames and dispatched two payloads.
C3_Witness ==
    /\ Len(frames) >= 2
    /\ chunk.from = frames[1].from
    /\ chunk.to = frames[2].to
    /\ chunk.logTo - chunk.logFrom = 2

\* C8: Ordering.  The k-th payload dispatched is that of the k-th frame and
\* was dispatched on the frame's last character; a request's response is in
\* the sink when its dispatch returns; and between two dispatches, and
\* after the last one, neither the sink nor pendingRequests changes: what
\* the handling of a message does is done before the next character is
\* taken.
C8_Ordering ==
    /\ \A k \in 1..Len(frames) :
        delivered >= frames[k].to =>
            /\ Len(log) >= k
            /\ log[k].at = frames[k].to
            /\ log[k].payload = JSONparse(frames[k].frame.body).v
    /\ \A i \in 1..Len(log) :
        /\ log[i].kind = "Request" => log[i].sinkTo = log[i].sinkFrom + 1
        /\ i < Len(log) =>
            /\ log[i].at < log[i + 1].at
            /\ log[i].sinkTo = log[i + 1].sinkFrom
            /\ log[i].pendingAfter = log[i + 1].pendingBefore
        /\ i = Len(log) =>
            /\ log[i].sinkTo = Len(sink)
            /\ log[i].pendingAfter = pendingRequests

\* One call dispatched a request, whose response it wrote, and then the
\* payload of the next frame.
C8_Witness ==
    /\ Len(log) = 2
    /\ chunk.logFrom = 0
    /\ chunk.logTo = 2
    /\ log[1].kind = "Request"
    /\ log[1].sinkTo = log[2].sinkFrom

----------------------------------------------------------------------------
\* The JSON text of a write: what follows the blank line of its header.
BodyOf(text) ==
    LET ends == {i \in 1..(Len(text) - 3) : SubSeq(text, i, i + 3) = CRLF \o CRLF}
        first == CHOOSE i \in ends : \A j \in ends : i <= j
    IN  SubSeq(text, first + 4, Len(text))

\* Whether text w occurs in text t.
Contains(t, w) ==
    \E i \in 1..(Len(t) - Len(w) + 1) : SubSeq(t, i, i + Len(w) - 1) = w

\* C4: Correlation.  A response whose id is that of a pending call is
\* handed to the callback registered under the method of the pending
\* request, and to no other, with the pending request, as sendRequest wrote
\* it, and the response; the call is removed from pendingRequests when the
\* callback returns true and stays otherwise, and no other call is touched.
C4_Correlation ==
    \A i \in 1..Len(log) :
        LET e == log[i]
            id == PropOf(e.payload, K_id)
            request == MapGet(e.pendingBefore, id)
            fn == MapGet(responseListeners, Get(request, K_method))
        IN  (e.kind = "Response" /\ MapHas(e.pendingBefore, id)) =>
                /\ fn # Undefined
                /\ e.listener = fn.name
                /\ e.args = <<request, e.payload>>
                /\ Get(request, K_id) = id
                /\ \E w \in 1..Len(sink) : sink[w].msg = request
                /\ e.outcome = "true" =>
                        e.pendingAfter = MapDelete(e.pendingBefore, id)
                /\ e.outcome # "true" => e.pendingAfter = e.pendingBefore

\* With the initialize and the shutdown request both pending, a response to
\* the shutdown request went to onShutdownResponse, which returned true, and
\* only the initialize request stayed pending.
C4_Witness ==
    \E i \in 1..Len(log) :
        /\ log[i].kind = "Response"
        /\ log[i].listener = "onShutdownResponse"
        /\ log[i].outcome = "true"
        /\ Len(log[i].pendingBefore) = 2
        /\ Len(log[i].pendingAfter) = 1
        /\ Get(log[i].pendingAfter[1].value, K_method) = Str(M_initialize)

\* C5: Unknown method.  The dispatch of a request whose method has no entry
\* in requestListeners writes one response: its JSON text has the id of the
\* request, an error with code METHOD_NOT_FOUND and a message that holds the
\* method name, and no result.
C5_UnknownMethod ==
    \A i \in 1..Len(log) :
        LET e == log[i]
            r == JSONparse(BodyOf(sink[e.sinkTo].text))
        IN  ( /\ e.kind = "Request"
              /\ ~MapHas(requestListeners, Get(e.payload, K_method)) ) =>
                /\ e.sinkTo = e.sinkFrom + 1
                /\ r.ok
                /\ Get(r.v, K_id) = Get(e.payload, K_id)
                /\ PropOf(Get(r.v, K_error), K_code) = Num(METHOD_NOT_FOUND)
                /\ PropOf(Get(r.v, K_error), K_message).t = "str"
                /\ Contains(PropOf(Get(r.v, K_error), K_message).s,
                            Get(e.payload, K_method).s)
                /\ ~HasKey(r.v, K_result)

\* The request {"id":1,"method":"m"} was dispatched.
C5_Witness ==
    \E i \in 1..Len(log) :
        log[i].kind = "Request" /\ log[i].payload = RequestUnknown

\* C6: Concrete scenario.  With an initialize request pending under id
\* "abc" and the decoder between frames, the call on the text
\* Content-Length: 23\n\n{"id":"abc","result":{}} dispatches one payload, a
\* response, to onInitializeResponse, which returns true, and "abc" is no
\* longer pending afterwards.
C6_Scenario ==
    ( /\ chunk.to > chunk.from
      /\ LastData = ScenarioFrame.text
      /\ Clean(chunk.before)
      /\ MapHas(chunk.before.pendingRequests, Str(ABC))
      /\ Get(MapGet(chunk.before.pendingRequests, Str(ABC)), K_method)
            = Str(M_initialize) ) =>
        /\ chunk.logTo = chunk.logFrom + 1
        /\ log[chunk.logTo].kind = "Response"
        /\ log[chunk.logTo].listener = "onInitializeResponse"
        /\ log[chunk.logTo].outcome = "true"
        /\ ~MapHas(pendingRequests, Str(ABC))

\* C7: Line-ending leniency.  The call on a frame whose two header lines end
\* in a bare line feed, with the decoder between frames, reads the length the
\* header announces and dispatches the payload of the body, as it does for
\* the same frame with "\r\n" line ends.
C7_LineFeedFrame ==
    ( /\ chunk.to > chunk.from
      /\ LastData = LineFeedFrame.text
      /\ Clean(chunk.before) ) =>
        /\ awaitLength = LineFeedFrame.length
        /\ chunk.logTo = chunk.logFrom + 1
        /\ log[chunk.logTo].payload = JSONparse(LineFeedFrame.body).v

\* C9: Classification.  Every payload JSON.parse returned is handled as a
\* request if it has 'method' and 'id', as a notification if it has 'method'
\* and no 'id', and as a response if it has no 'method'.
C9_Classification ==
    \A i \in 1..Len(log) :
        log[i].kind =
            IF In(K_method, log[i].payload)
            THEN IF In(K_id, log[i].payload) THEN "Request" ELSE "Notification"
            ELSE "Response"

\* C10: Every inbound request is answered by exactly one response with its
\* id, and a registered listener is called once with its params.
C10_OneResponse ==
    \A i \in 1..Len(log) :
        LET e == log[i]
            fn == MapGet(requestListeners, Get(e.payload, K_method))
        IN  e.kind = "Request" =>
                /\ e.sinkTo = e.sinkFrom + 1
                /\ Get(JSONparse(BodyOf(sink[e.sinkTo].text)).v, K_id)
                     = Get(e.payload, K_id)
                /\ fn # Undefined =>
                     /\ e.listener = fn.name
                     /\ e.args = <<Get(e.payload, K_params)>>

\* C11: Every response written for an inbound request carries a result or
\* an error and never both, whatever ClientResponse the request listener
\* returned.
C11_ResultOrError ==
    \A i \in 1..Len(log) :
        LET e == log[i]
            r == JSONparse(BodyOf(sink[e.sinkTo].text)).v
        IN  (e.kind = "Request" /\ e.sinkTo > e.sinkFrom) =>
                HasKey(r, K_result) # HasKey(r, K_error)

\* C12: Decode error is recoverable.  When JSON.parse has thrown on the body
\* of a complete frame, the decoder is left between frames with nothing
\* accumulated, and a well-formed frame that follows the bad one, in the
\* same call or a later one, is dispatched once, on its last character,
\* with the payload of its body.
C12_DecodeErrorRecoverable ==
    /\ chunk.threw => Clean(Decoder)
    /\ \A k \in 2..Len(frames) :
        ( /\ frames[k - 1].frame = BadJsonFrame
          /\ \A j \in 1..(k - 2) : WellFormed(frames[j].frame)
          /\ WellFormed(frames[k].frame)
          /\ delivered >= frames[k].to ) =>
            /\ Cardinality(EventsIn(frames[k].from, frames[k].to)) = 1
            /\ \A i \in EventsIn(frames[k].from, frames[k].to) :
                /\ log[i].at = frames[k].to
                /\ log[i].payload = JSONparse(frames[k].frame.body).v

\* C13: Framing error is surfaced.  The call of onMessageReceived that takes,
\* with the decoder between frames, a frame whose header line holds no
\* number where the length belongs, reports an error to its caller.
C13_FramingErrorSurfaced ==
    \A k \in 1..Len(frames) :
        ( /\ frames[k].frame = MalformedLengthFrame
          /\ Clean(chunk.before)
          /\ chunk.from = frames[k].from
          /\ chunk.to >= frames[k].to ) =>
            chunk.threw

\* C14: A listener that throws corrupts nothing.  Nothing is thrown into
\* onMessageReceived; the dispatch in which a request, notification or
\* response listener threw leaves the decoder's variables as it found them
\* and pendingRequests with no key it did not hold; every frame after it,
\* in the same call or a later one, is dispatched once, on its last
\* character, with the payload of its body; and the decoder is between
\* frames once all is delivered.
C14_HandlerThrowIsolated ==
    \A i \in 1..Len(log) :
        log[i].outcome = "threw" =>
            /\ ~chunk.threw
            /\ log[i].decoderAfter = log[i].decoderBefore
            /\ \A j \in 1..Len(log[i].pendingAfter) :
                MapHas(log[i].pendingBefore, log[i].pendingAfter[j].key)
            /\ \A k \in 1..Len(frames) :
                (log[i].at <= frames[k].from /\ delivered >= frames[k].to) =>
                    /\ Cardinality(EventsIn(frames[k].from, frames[k].to)) = 1
                    /\ \A e \in EventsIn(frames[k].from, frames[k].to) :
                        /\ log[e].at = frames[k].to
                        /\ log[e].payload = JSONparse(frames[k].frame.body).v
            /\ delivered = Len(stream) => Clean(Decoder)

\* In one call onInitializeResponse threw on the response to the pending
\* initialize request, and the request listener was then called on the next
\* frame and threw as well.
C14_Witness ==
    \E i, j \in 1..Len(log) :
        /\ chunk.logFrom < i /\ i < j /\ j <= chunk.logTo
        /\ log[i].kind = "Response" /\ log[i].outcome = "threw"
        /\ log[i].listener = "onInitializeResponse"
        /\ log[j].kind = "Request" /\ log[j].outcome = "threw"

\* C15: When the listener of an inbound request throws, the dispatch writes
\* one response, with the id of the request and an error whose code is
\* INTERNAL_ERROR.
C15_InternalErrorResponse ==
    \A i \in 1..Len(log) :
        LET e == log[i]
            r == JSONparse(BodyOf(sink[e.sinkTo].text)).v
        IN  (e.kind = "Request" /\ e.outcome = "threw") =>
                /\ e.sinkTo = e.sinkFrom + 1
                /\ Get(r, K_id) = Get(e.payload, K_id)
                /\ PropOf(Get(r, K_error), K_code) = Num(INTERNAL_ERROR)

\* C16: When a response arrives for a pending call whose request method has
\* no response callback registered, the call is removed from
\* pendingRequests.
C16_RemovedWithoutCallback ==
    \A i \in 1..Len(log) :
        LET e == log[i]
            id == PropOf(e.payload, K_id)
        IN  ( /\ e.kind = "Response"
              /\ MapHas(e.pendingBefore, id)
              /\ ~MapHas(responseListeners,
                         Get(MapGet(e.pendingBefore, id), K_method)) ) =>
                ~MapHas(e.pendingAfter, id)

\* C17: When a response callback returns false the pending call stays as it
\* was, and the next response with the same id goes to the same callback
\* with the same request; pendingRequests changes in the dispatch of a
\* response only by losing the call of that id, after its callback returned
\* true.
C17_KeptUntilTrue ==
    \A i \in 1..Len(log) :
        LET e == log[i]
            id == PropOf(e.payload, K_id)
        IN  e.kind = "Response" =>
                /\ e.outcome = "false" =>
                    /\ e.pendingAfter = e.pendingBefore
                    /\ \A j \in (i + 1)..Len(log) :
                        ( /\ log[j].kind = "Response"
                          /\ PropOf(log[j].payload, K_id) = id
                          /\ \A k \in (i + 1)..(j - 1) :
                                ~( /\ log[k].kind = "Response"
                                   /\ PropOf(log[k].payload, K_id) = id ) ) =>
                            /\ log[j].listener = e.listener
                            /\ log[j].args = <<e.args[1], log[j].payload>>
                /\ e.pendingAfter # e.pendingBefore =>
                    /\ e.outcome = "true"
                    /\ e.pendingAfter = MapDelete(e.pendingBefore, id)

\* The callback returned false on a first response to the call and true on
\* a second, which removed the call.
C17_Witness ==
    \E i, j \in 1..Len(log) :
        /\ i < j
        /\ log[i].kind = "Response" /\ log[i].outcome = "false"
        /\ log[j].kind = "Response" /\ log[j].outcome = "true"
        /\ PropOf(log[j].payload, K_id) = PropOf(log[i].payload, K_id)
        /\ log[j].listener = "responseListener"
        /\ MapHas(log[j].pendingBefore, PropOf(log[j].payload, K_id))
        /\ ~MapHas(log[j].pendingAfter, PropOf(log[j].payload, K_id))

\* C18: A response that carries an id no pending call has is reported and
\* nothing else: no callback is called, the dispatch leaves pendingRequests
\* and the decoder's variables as they were and writes nothing, and the
\* well-formed frames after it are dispatched, once each, on their last
\* character.
C18_UnknownIdReported ==
    \A i \in 1..Len(log) :
        LET e == log[i]
            id == PropOf(e.payload, K_id)
        IN  ( /\ e.kind = "Response"
              /\ id \notin {Null, Undefined}
              /\ ~MapHas(e.pendingBefore, id) ) =>
                /\ e.report = "Pending request not found."
                /\ e.listener = "" /\ e.args = << >>
                /\ e.pendingAfter = e.pendingBefore
                /\ e.decoderAfter = e.decoderBefore
                /\ e.sinkTo = e.sinkFrom
                /\ \A k \in 1..Len(frames) :
                    ( /\ \A j \in 1..k : WellFormed(frames[j].frame)
                      /\ e.at <= frames[k].from
                      /\ delivered >= frames[k].to ) =>
                        /\ Cardinality(EventsIn(frames[k].from, frames[k].to)) = 1
                        /\ \A n \in EventsIn(frames[k].from, frames[k].to) :
                            /\ log[n].at = frames[k].to
                            /\ log[n].payload = JSONparse(frames[k].frame.body).v

\* With a call pending, a response with another id was reported, and the
\* frame after it was dispatched in the same call.
C18_Witness ==
    \E i \in 1..Len(log) :
        /\ log[i].kind = "Response"
        /\ PropOf(log[i].payload, K_id) = Str(ABC)
        /\ Len(log[i].pendingBefore) = 1
        /\ ~MapHas(log[i].pendingBefore, Str(ABC))
        /\ log[i].report = "Pending request not found."
        /\ chunk.logFrom < i /\ i < chunk.logTo

\* C19: A response whose id is null is reported; no pending call is removed
\* and no callback is called for it.
C19_NullIdReported ==
    \A i \in 1..Len(log) :
        LET e == log[i] IN
        (e.kind = "Response" /\ PropOf(e.payload, K_id) = Null) =>
            /\ e.report # ""
            /\ e.listener = "" /\ e.args = << >>
            /\ e.pendingAfter = e.pendingBefore

\* With two calls pending, the response {"id":null,"result":1} was
\* dispatched.
C19_Witness ==
    \E i \in 1..Len(log) :
        /\ log[i].payload = ResponseNullId
        /\ log[i].kind = "Response"
        /\ Len(log[i].pendingBefore) = 2

\* C20: A response without an id and a response whose id is null get the
\* same report, which is not the report of a response whose id is not
\* pending.
C20_MissingIdReportedAsNull ==
    \A i \in 1..Len(log) :
        LET e == log[i] IN
        ( /\ e.kind = "Response"
          /\ PropOf(e.payload, K_id) \in {Null, Undefined} ) =>
            /\ e.report = "Missing id field form response."
            /\ e.report # "Pending request not found."

\* C21: The dispatch of an inbound notification calls the listener that
\* notificationListeners holds for its method, once, with its params; when
\* there is none it calls nothing, reports nothing, writes nothing and
\* leaves pendingRequests and the decoder's variables as they were.
C21_NotificationDispatch ==
    \A i \in 1..Len(log) :
        LET e == log[i]
            fn == MapGet(notificationListeners, Get(e.payload, K_method))
        IN  e.kind = "Notification" =>
                /\ fn # Undefined =>
                    /\ e.listener = fn.name
                    /\ e.args = <<Get(e.payload, K_params)>>
                /\ fn = Undefined =>
                    /\ e.listener = "" /\ e.args = << >> /\ e.report = ""
                    /\ e.sinkTo = e.sinkFrom
                    /\ e.pendingAfter = e.pendingBefore
                    /\ e.decoderAfter = e.decoderBefore

\* onLogTraceNotification was called on a $/logTrace notification, and a
\* notification of method "n", which has no listener, was dispatched with a
\* call pending.
C21_Witness ==
    \E i, j \in 1..Len(log) :
        /\ log[i].kind = "Notification"
        /\ log[i].listener = "onLogTraceNotification"
        /\ log[i].outcome = "returned"
        /\ log[j].kind = "Notification"
        /\ log[j].payload = NotificationUnknownWithError
        /\ Len(log[j].pendingBefore) > 0

\* The writes of sendRequest: the messages with an id and a method.
RequestWrites ==
    {w \in 1..Len(sink) : HasKey(sink[w].msg, K_id) /\ HasKey(sink[w].msg, K_method)}

\* C22: The id of a request sendRequest writes is the id of no request it
\* wrote before, and when the request is written pendingRequests holds it
\* under its id, as its newest entry.
C22_LedgerBeforeWrite ==
    \A w \in RequestWrites :
        LET id == Get(sink[w].msg, K_id)
            ledger == sink[w].pendingAt
        IN  /\ \A v \in RequestWrites :
                v < w => Get(sink[v].msg, K_id) # id
            /\ MapGet(ledger, id) = sink[w].msg
            /\ ledger[Len(ledger)].key = id

\* The shutdown request was written with the initialize request pending.
C22_Witness ==
    \E w \in RequestWrites :
        /\ Get(sink[w].msg, K_method) = Str(M_shutdown)
        /\ Len(sink[w].pendingAt) = 2
        /\ Get(sink[w].pendingAt[1].value, K_method) = Str(M_initialize)

\* What the writes of one dispatch show of sendNotification and
\* sendResponse: a dispatch writes at most once, a message that is no
\* request, as the frame of its JSON text and with pendingRequests as the
\* dispatch found it; the decoder's variables are as before; and
\* pendingRequests is as before but for the call a callback completed.
SendsAreStateless ==
    \A i \in 1..Len(log) :
        LET e == log[i] IN
        /\ e.sinkTo \in {e.sinkFrom, e.sinkFrom + 1}
        /\ e.kind = "Request" => e.sinkTo = e.sinkFrom + 1
        /\ e.listener = "onShutdownResponse" => e.sinkTo = e.sinkFrom + 1
        /\ e.sinkTo > e.sinkFrom =>
            LET w == sink[e.sinkTo] IN
            /\ ~(HasKey(w.msg, K_id) /\ HasKey(w.msg, K_method))
            /\ w.text = ContentLengthText \o NumToText(Len(JSONstringify(w.msg)))
                            \o CRLF \o CRLF \o JSONstringify(w.msg)
            /\ w.pendingAt = e.pendingBefore
            /\ e.decoderAfter = e.decoderBefore
            /\ e.pendingAfter \in
                 {e.pendingBefore,
                  MapDelete(e.pendingBefore, PropOf(e.payload, K_id))}

\* C23: sendNotification and sendResponse are stateless.  Each writes one
\* framed message and leaves pendingRequests and the decoder's variables as
\* they were, and no call of onMessageReceived, from which they are called,
\* changes one of the three listener tables.
C23_StatelessSends ==
    /\ []SendsAreStateless
    /\ [][delivered' # delivered =>
            UNCHANGED <<notificationListeners, requestListeners,
                        responseListeners>>]_vars

\* sendNotification("initialized", {}) was called by onInitializeResponse,
\* and sendResponse by the dispatch of a request while a call was pending.
C23_Witness ==
    \E i, j \in 1..Len(log) :
        /\ log[i].listener = "onInitializeResponse"
        /\ log[i].sinkTo = log[i].sinkFrom + 1
        /\ sink[log[i].sinkTo].msg = NotificationMessage(M_initialized, EmptyObj)
        /\ log[j].kind = "Request"
        /\ log[j].sinkTo = log[j].sinkFrom + 1
        /\ Len(log[j].pendingBefore) > 0

\* C24: Every write of the encoder is the text Content-Length: L\r\n\r\n
\* followed by the JSON text of the message, L being the byte length of the
\* UTF-8 encoding of the JSON text.
C24_ByteLength ==
    \A w \in 1..Len(sink) :
        sink[w].text =
            ContentLengthText
                \o NumToText(Utf8Length(JSONstringify(sink[w].msg)))
                \o CRLF \o CRLF \o JSONstringify(sink[w].msg)

\* C25: The decoder never blocks.  Every call of onMessageReceived ends
\* having taken every character of its chunk, each once and in order: the
\* rounds of the call have taken the stream up to the end of the chunk.
C25_ChunkConsumed == chunk.consumed = chunk.to

\* A line without the carriage return that ends it, if one does.
LineContent(text) ==
    IF text # << >> /\ text[Len(text)] = "\r"
    THEN SubSeq(text, 1, Len(text) - 1)
    ELSE text

\* Whether a line is Content-Length: N, N an unsigned decimal number.
IsContentLengthLine(text) ==
    LET l == LineContent(text) IN
    /\ Len(l) > contentLength
    /\ SubSeq(l, 1, contentLength) = ContentLengthText
    /\ \A i \in (contentLength + 1)..Len(l) : IsDigit(l[i])

\* The number N of a line Content-Length: N.
LengthOnLine(text) ==
    ParseDigits(SubSeq(LineContent(text), contentLength + 1,
                       Len(LineContent(text))), 1, 0).n

\* C26: In the header stage the decoder moves on to the stage of the header's
\* end exactly when a complete line Content-Length: N has been accumulated,
\* with the accumulator emptied and awaitLength the decimal value of N.
C26_HeaderLine ==
    \A i \in 1..Len(chunk.steps) :
        LET s == chunk.steps[i] IN
        s.stage = 0 =>
            /\ s.decoder.msgStage = 1 <=> IsContentLengthLine(s.text)
            /\ s.decoder.msgStage = 1 =>
                /\ s.decoder.received = << >>
                /\ s.decoder.awaitLength = LengthOnLine(s.text)

\* C27: In the stage of the header's end the decoder moves on to the body
\* stage, readLength being 0, if and only if the line that just ended is
\* empty; after any other line it stays in the stage with the line dropped.
C27_BlankLine ==
    \A i \in 1..Len(chunk.steps) :
        LET s == chunk.steps[i] IN
        s.stage = 1 =>
            /\ s.decoder.msgStage = 2 <=> LineContent(s.text) = << >>
            /\ s.decoder.msgStage = 2 => s.decoder.readLength = 0
            /\ s.decoder.msgStage # 2 =>
                /\ s.decoder.msgStage = 1
                /\ s.decoder.received = << >>

C29_PendingLifecycle ==
    [][\A i \in 1..Len(pendingRequests) :
        \/ MapGet(pendingRequests', pendingRequests[i].key)
              = pendingRequests[i].value
        \/ \E n \in (Len(log) + 1)..Len(log') :
              /\ log'[n].kind = "Response"
              /\ PropOf(log'[n].payload, K_id) = pendingRequests[i].key
              /\ log'[n].outcome = "true"]_vars

\* The initialize and the shutdown request are both pending after a
\* response that matched no pending call and a response with a null id were
\* dispatched while both were pending.
C29_Witness ==
    /\ Len(pendingRequests) = 2
    /\ \E j, k \in 1..Len(log) :
        /\ log[j].report = "Pending request not found."
        /\ Len(log[j].pendingBefore) = 2
        /\ log[k].report = "Missing id field form response."
        /\ Len(log[k].pendingBefore) = 2

\* C30: The three listener tables are independent.  A dispatch calls a
\* listener only from the table of its kind: a request the one
\* requestListeners holds for its method, a notification the one
\* notificationListeners holds for its method, a response the one
\* responseListeners holds for the method of the pending request.  A request
\* whose method has no entry in requestListeners calls nothing and is
\* answered with method not found, whatever the other tables hold; and
\* activate enters nothing in requestListeners, so that every request is
\* where no other code has.
C30_IndependentTables ==
    /\ MapKeys(requestListeners) \subseteq {Str(M_rq)}
    /\ \A i \in 1..Len(log) :
        LET e == log[i]
            method == Get(e.payload, K_method)
            r == JSONparse(BodyOf(sink[e.sinkTo].text)).v
        IN  /\ e.kind = "Request" =>
                IF MapHas(requestListeners, method)
                THEN e.listener = MapGet(requestListeners, method).name
                ELSE /\ e.listener = "" /\ e.args = << >>
                     /\ e.sinkTo = e.sinkFrom + 1
                     /\ Get(r, K_id) = Get(e.payload, K_id)
                     /\ PropOf(Get(r, K_error), K_code) = Num(METHOD_NOT_FOUND)
            /\ e.kind = "Notification" =>
                e.listener = IF MapHas(notificationListeners, method)
                             THEN MapGet(notificationListeners, method).name
                             ELSE ""
            /\ (e.kind = "Response" /\ e.listener # "") =>
                e.listener =
                    MapGet(responseListeners,
                           Get(MapGet(e.pendingBefore, PropOf(e.payload, K_id)),
                               K_method)).name

\* A request of method $/logTrace, which has a notification listener, and a
\* request of method initialize, which has a response callback and is the
\* method of a pending call, were dispatched.
C30_Witness ==
    \E i, j \in 1..Len(log) :
        /\ log[i].kind = "Request" /\ log[i].payload = RequestLogTrace
        /\ MapHas(notificationListeners, Str(M_logTrace))
        /\ log[j].kind = "Request" /\ log[j].payload = RequestInitialize
        /\ MapHas(responseListeners, Str(M_initialize))
        /\ Len(log[j].pendingBefore) > 0

\* C31: Whenever the initialize request has been written, and so whenever a
\* chunk has been decoded or a message dispatched, responseListeners holds
\* the callbacks of initialize and shutdown and notificationListeners the
\* two notification listeners.
C31_TablesBeforeTraffic ==
    (sink # << >> \/ delivered > 0 \/ log # << >>) =>
        /\ MapGet(responseListeners, Str(M_initialize))
             = Fn("onInitializeResponse")
        /\ MapGet(responseListeners, Str(M_shutdown)) = Fn("onShutdownResponse")
        /\ MapGet(notificationListeners, Str(M_publishDiagnostics))
             = Fn("onPublishDiagnosticsNotification")
        /\ MapGet(notificationListeners, Str(M_logTrace))
             = Fn("onLogTraceNotification")

\* The first chunk the server sent after activation was decoded and the
\* response to the initialize request in it went to onInitializeResponse.
C31_Witness ==
    /\ chunk.from = 0 /\ chunk.to > 0
    /\ Get(sink[1].msg, K_method) = Str(M_initialize)
    /\ \E i \in 1..Len(log) :
        log[i].kind = "Response" /\ log[i].listener = "onInitializeResponse"

\* C32: An "initialized" notification is written only in the dispatch of a
\* response to the pending initialize request, and only when the response
\* has a result; in the dispatch of every response to the pending initialize
\* request the callback returns true and the request leaves pendingRequests.
C32_InitializeHandshake ==
    /\ \A w \in 1..Len(sink) :
        PropOf(sink[w].msg, K_method) = Str(M_initialized) =>
            \E i \in 1..Len(log) :
                LET e == log[i]
                    id == PropOf(e.payload, K_id)
                IN  /\ e.kind = "Response"
                    /\ e.sinkFrom < w /\ w <= e.sinkTo
                    /\ MapHas(e.pendingBefore, id)
                    /\ Get(MapGet(e.pendingBefore, id), K_method)
                         = Str(M_initialize)
                    /\ HasKey(e.payload, K_result)
    /\ \A i \in 1..Len(log) :
        LET e == log[i]
            id == PropOf(e.payload, K_id)
        IN  ( /\ e.kind = "Response"
              /\ MapHas(e.pendingBefore, id)
              /\ Get(MapGet(e.pendingBefore, id), K_method)
                   = Str(M_initialize) ) =>
                /\ e.outcome = "true"
                /\ ~MapHas(e.pendingAfter, id)

\* The dispatches of a response to the pending shutdown request.
ShutdownResponses ==
    {i \in 1..Len(log) :
        LET id == PropOf(log[i].payload, K_id)
        IN  /\ log[i].kind = "Response"
            /\ MapHas(log[i].pendingBefore, id)
            /\ Get(MapGet(log[i].pendingBefore, id), K_method) = Str(M_shutdown)}

\* Every "exit" notification is written in the dispatch of a response to the
\* pending shutdown request, that dispatch writes it once and nothing else,
\* and the shutdown request has left pendingRequests when the dispatch ends.
ExitFollowsShutdownResponse ==
    /\ \A w \in 1..Len(sink) :
        PropOf(sink[w].msg, K_method) = Str(M_exit) =>
            \E i \in ShutdownResponses :
                log[i].sinkFrom < w /\ w <= log[i].sinkTo
    /\ \A i \in ShutdownResponses :
        /\ log[i].sinkTo = log[i].sinkFrom + 1
        /\ sink[log[i].sinkTo].msg = NotificationMessage(M_exit, EmptyObj)
        /\ log[i].outcome = "true"
        /\ ~MapHas(log[i].pendingAfter, PropOf(log[i].payload, K_id))

\* C33: Once deactivate has been called, a shutdown request has been written
\* and was in pendingRequests when it was written; an "exit" notification is
\* written only in the dispatch of a response to that pending request, once
\* in each such dispatch, and the request is then removed.
C33_ShutdownHandshake ==
    /\ deactivated =>
        \E w \in RequestWrites :
            /\ Get(sink[w].msg, K_method) = Str(M_shutdown)
            /\ MapHas(sink[w].pendingAt, Get(sink[w].msg, K_id))
    /\ ExitFollowsShutdownResponse

\* C34: While the decoder is in the body stage, readLength is at least 0 and
\* less than awaitLength, after every call of onMessageReceived and after
\* every line and body a call has ended.
C34_BodyCountBelowLength ==
    LET InBounds(d) ==
            d.msgStage = 2 =>
                /\ d.awaitLength # NaN
                /\ 0 <= d.readLength
                /\ d.readLength < d.awaitLength
    IN  /\ InBounds(Decoder)
        /\ \A k \in 1..Len(chunk.steps) : InBounds(chunk.steps[k].decoder)

\* C35: After the dispatch of a response in which the callback returned
\* true, every later response with the same id is reported as having no
\* pending request: no callback is called and pendingRequests stays as it
\* is.
C35_NoSecondCallback ==
    \A i, j \in 1..Len(log) :
        ( /\ i < j
          /\ log[i].kind = "Response" /\ log[i].outcome = "true"
          /\ log[j].kind = "Response"
          /\ PropOf(log[j].payload, K_id) = PropOf(log[i].payload, K_id) ) =>
            /\ log[j].listener = "" /\ log[j].args = << >>
            /\ log[j].outcome = ""
            /\ log[j].report = "Pending request not found."
            /\ log[j].pendingAfter = log[j].pendingBefore
            /\ log[j].sinkTo = log[j].sinkFrom

\* A response was dispatched to a callback that returned true, and a second
\* response with the same id arrived while another call was pending.
C35_Witness ==
    \E i, j \in 1..Len(log) :
        /\ i < j
        /\ log[i].kind = "Response" /\ log[i].outcome = "true"
        /\ log[i].listener # ""
        /\ log[j].kind = "Response"
        /\ PropOf(log[j].payload, K_id) = PropOf(log[i].payload, K_id)
        /\ log[j].pendingBefore # EmptyMap

\* The dispatches of a response in which the callback returned true.
Completed == {i \in 1..Len(log) : log[i].kind = "Response" /\ log[i].outcome = "true"}

\* Each key of pendingRequests is the id of the request under it and no key
\* occurs twice.
LedgerWellKeyed ==
    /\ \A k \in 1..Len(pendingRequests) :
        /\ pendingRequests[k].key = PropOf(pendingRequests[k].value, K_id)
        /\ \A n \in 1..Len(pendingRequests) :
            pendingRequests[n].key = pendingRequests[k].key => n = k

\* There are as many entries in pendingRequests as calls of sendRequest less
\* the responses whose callback returned true.
LedgerCountsCalls ==
    Len(pendingRequests) = Cardinality(issued) - Cardinality(Completed)

\* There are as many entries in pendingRequests as requests written less the
\* responses whose callback returned true.
LedgerCountsWrites ==
    Len(pendingRequests) = Cardinality(RequestWrites) - Cardinality(Completed)

\* A call of sendRequest adds one entry to pendingRequests, under the id of
\* the request, holding the method and the params of the call, and leaves
\* the entries it finds as they are.
SendRequestAddsOne ==
    issued' # issued =>
        \E id \in issued' \ issued :
            LET method == IF activation' # activation THEN M_initialize
                          ELSE M_shutdown
                params == IF activation' # activation THEN InitializeParams
                          ELSE Undefined
            IN  /\ ~MapHas(pendingRequests, Str(id))
                /\ pendingRequests' =
                     Append(pendingRequests,
                            [key |-> Str(id),
                             value |-> RequestMessage(id, method, params)])

\* C36: Each key of pendingRequests is the id of the request stored under
\* it, the request holds the method passed to sendRequest, sendRequest adds
\* exactly one entry and overwrites none, and the number of entries is the
\* number of requests written less the number of responses whose callback
\* returned true.
C36_LedgerKeys ==
    /\ [](LedgerWellKeyed /\ LedgerCountsWrites)
    /\ [][SendRequestAddsOne]_vars

\* C37: Every request in pendingRequests has been written: the sink holds
\* a write of that request, made with the request in pendingRequests.
C37_PendingWasWritten ==
    \A k \in 1..Len(pendingRequests) :
        \E w \in RequestWrites :
            /\ sink[w].msg = pendingRequests[k].value
            /\ MapGet(sink[w].pendingAt, pendingRequests[k].key)
                 = pendingRequests[k].value

====
